---- MODULE Spec2Model ----
(***************************************************************************)
(* A model of hprofviz: the text trace parser (ParseHProfFile), the        *)
(* call-graph aggregator (CreateNodes, in its two revisions), the filters  *)
(* (FilterTopK, Prune), the binary HPROF decoder (hprofbin) and its top10  *)
(* selection.                                                              *)
(*                                                                         *)
(* Pointers are modelled by what identifies the object: a *CallSite is an  *)
(* index into the heap `sites`, a *Node is the *CallSite it was created    *)
(* for (CreateNodes keeps one Node per *CallSite in its `nodes` map), and  *)
(* a *Trace is the key it has in `traces`.  A nil map and an empty map     *)
(* read alike in Go; both are the empty function here.                     *)
(***************************************************************************)
EXTENDS Integers, Sequences, FiniteSets, TLC

VARIABLES
    pc,          \* where the running program is
    prog,        \* which main is running: "topk" (-topk/-regex) or "keep" (-keep)
    sites,       \* the heap of CallSite objects: pointer -> [Name, Filename, LineNumber]
    traces,      \* the trace set: trace -> [Stack, Count]
    input,       \* the trace set as ParseHProfFile returned it
    topk,        \* the k given to FilterTopK (0: not called)
    visited,     \* CreateNodes: the traces its range loop has been through
    nodes,       \* CreateNodes: nodes map, *CallSite -> Node
    nodeList,    \* the []*Node that CreateNodes / Prune returned
    keep,        \* the *keep given to Prune
    lineNumber,  \* ParseHProfFile: the lines scanned so far
    inTrace,     \* ParseHProfFile: inside a TRACE block
    inSamples,   \* ParseHProfFile: inside the CPU SAMPLES table
    callSites,   \* ParseHProfFile: stack-frame line -> *CallSite
    currentTrace, \* ParseHProfFile: the trace being filled (0: nil)
    idSize,      \* reader.idSize
    strings,     \* reader.strings: id -> text
    classByID,   \* reader.classByID
    classBySerial, \* reader.classBySerial
    frameByID,   \* reader.frameByID
    traceBySerial, \* reader.traceBySerial
    total,       \* reader.total
    instanceOverhead,        \* reader.instanceOverhead
    objectArrayOverhead,     \* reader.objectArrayOverhead
    primitiveArrayOverhead,  \* reader.primitiveArrayOverhead
    traceSizes,  \* reader.traceSizes: trace serial -> bytes
    remaining,   \* readRecord's n: what is left of the HEAP DUMP SEGMENT being read
    records,     \* the top-level records read so far
    subRecords,  \* the sub-records of HEAP DUMP SEGMENTs read so far
    err,         \* what readAll returned ("" while it runs, "nil" for nil)
    ranged,      \* top10: the entries of its map m, in the order range yields them
    result       \* top10: the slice it returned

graphVars == <<prog, sites, traces, input, topk, visited, nodes, nodeList, keep>>
textVars == <<lineNumber, inTrace, inSamples, callSites, currentTrace>>
tables == <<strings, classByID, classBySerial, frameByID, traceBySerial>>
sizes == <<total, instanceOverhead, objectArrayOverhead, primitiveArrayOverhead, traceSizes>>
binVars == <<idSize, tables, sizes, remaining, records, subRecords, err>>
topVars == <<ranged, result>>
vars == <<pc, graphVars, textVars, binVars, topVars>>

----------------------------------------------------------------------------
(* Helpers on functions and sequences *)

Range(s) == {s[i] : i \in DOMAIN s}

EmptyMap == [x \in {} |-> 0]

RECURSIVE SumFn(_)
SumFn(f) ==
    IF DOMAIN f = {} THEN 0
    ELSE LET x == CHOOSE y \in DOMAIN f : TRUE
         IN f[x] + SumFn([y \in DOMAIN f \ {x} |-> f[y]])

\* All orderings of a finite set, as sequences without repetition.
Perms(S) ==
    {p \in [1..Cardinality(S) -> S] : \A i, j \in 1..Cardinality(S) : p[i] = p[j] => i = j}

\* s[i:] of Go, for a 0-based i.
SliceFrom(s, i) == SubSeq(s, i + 1, Len(s))

\* s[:i] of Go.
SliceTo(s, i) == SubSeq(s, 1, i)

----------------------------------------------------------------------------
(* Bounds of the call-graph model *)

MaxTraces == 2
MaxStack == 3
SitePtrs == {1, 2}
Counts == {0, 1}
Progs == {"topk", "keep"}

\* The CallSite objects the graph specification starts with.
GraphSites == <<[Name |-> "f", Filename |-> "A", LineNumber |-> 7],
                [Name |-> "g", Filename |-> "A", LineNumber |-> 7]>>

Stacks == UNION {[1..n -> SitePtrs] : n \in 0..MaxStack}

TraceVals == [Stack : Stacks, Count : Counts]

\* Trace pointers carry no order and nothing reads Trace.ID after parsing, so
\* the trace sets are enumerated up to a renaming of the traces: trace i+1
\* is never ranked below trace i.
RECURSIVE StackCode(_)
StackCode(s) ==
    IF s = <<>> THEN 0 ELSE Head(s) + (Cardinality(SitePtrs) + 1) * StackCode(Tail(s))

TraceRank(v) == StackCode(v.Stack) * 4 + v.Count

TraceSets ==
    UNION {{f \in [1..n -> TraceVals] :
               \A i \in 1..n : \A j \in 1..n : i < j => TraceRank(f[i]) <= TraceRank(f[j])}
           : n \in 0..MaxTraces}

----------------------------------------------------------------------------
(* FilterTopK: main.go of the -topk/-regex program *)

CountSum(ts) == SumFn([t \in DOMAIN ts |-> ts[t].Count])

\* byCount.Less over two traces of the set.
byCountLess_ascending(ti, tj) == traces[ti].Count > traces[tj].Count
byCountLess(ti, tj) == traces[ti].Count < traces[tj].Count

\* What sort.Sort(sort.Reverse(byCount(x))) may leave: sort.Sort is not
\* stable, so any ordering in which no element is Less than a later one.
SortedReverseByCount(seq) ==
    \A i, j \in DOMAIN seq : i < j => ~byCountLess(seq[i], seq[j])

FilterTopK(k) ==
    /\ pc = "main"
    /\ prog = "topk"
    /\ topk' = k
    /\ IF k > Cardinality(DOMAIN traces)
       THEN \* orderedTraces[k:] with k > len(orderedTraces): a run-time panic
            /\ pc' = "panic"
            /\ UNCHANGED traces
       ELSE \E orderedTraces \in Perms(DOMAIN traces) :
                /\ SortedReverseByCount(orderedTraces)
                /\ traces' = [t \in DOMAIN traces \ Range(SliceFrom(orderedTraces, k))
                                 |-> traces[t]]
                /\ pc' = "filtered"
    /\ UNCHANGED <<prog, sites, input, visited, nodes, nodeList, keep, textVars, binVars, topVars>>

----------------------------------------------------------------------------
(* CreateNodes *)

NilNode == 0

NewNode == [Count |-> 0, CumulativeCount |-> 0, EdgeWeights |-> EmptyMap, BackLinks |-> {}]

\* node, ok := nodes[site]; if !ok { node = &Node{CallSite: site}; nodes[site] = node }
Lookup(ns, site) == IF site \in DOMAIN ns THEN ns ELSE (site :> NewNode) @@ ns

\* m[child] += count on a map that may lack the key
AddWeight(ew, child, count) ==
    IF child \in DOMAIN ew THEN [ew EXCEPT ![child] = @ + count]
    ELSE (child :> count) @@ ew

\* if i == 0 { node.Count += trace.Count }
SelfCount_everyPosition(i, count) == count
SelfCount(i, count) == IF i = 0 THEN count ELSE 0

\* node.CumulativeCount += trace.Count, once per stack position
CumulativeAdd(ns, site, count) == [ns EXCEPT ![site].CumulativeCount = @ + count]

\* if child != nil { node.EdgeWeights[child] += trace.Count; child.BackLinks[node] = true }
Link_noEdge(ns, node, child, count) == ns
Link(ns, node, child, count) ==
    IF child = NilNode THEN ns
    ELSE [ns EXCEPT ![node].EdgeWeights = AddWeight(@, child, count),
                    ![child].BackLinks = @ \cup {node}]

\* The loop over trace.Stack, from 0-based position i on (the -topk/-regex program).
RECURSIVE WalkStack(_, _, _, _, _)
WalkStack(ns, stack, count, i, child) ==
    IF i >= Len(stack) THEN ns
    ELSE LET site == stack[i + 1]
             n0 == Lookup(ns, site)
             n1 == [n0 EXCEPT ![site].Count = @ + SelfCount(i, count)]
             n2 == CumulativeAdd(n1, site, count)
             n3 == Link(n2, site, child, count)
         IN WalkStack(n3, stack, count, i + 1, site)

\* The same loop in the -keep program: Count grows at every position, and
\* there are no cumulative counts or back links.
LinkKeep(ns, node, child, count) ==
    IF child = NilNode THEN ns
    ELSE [ns EXCEPT ![node].EdgeWeights = AddWeight(@, child, count)]

RECURSIVE WalkStackKeep(_, _, _, _, _)
WalkStackKeep(ns, stack, count, i, child) ==
    IF i >= Len(stack) THEN ns
    ELSE LET site == stack[i + 1]
             n0 == Lookup(ns, site)
             n1 == [n0 EXCEPT ![site].Count = @ + count]
             n2 == LinkKeep(n1, site, child, count)
         IN WalkStackKeep(n2, stack, count, i + 1, site)

\* One iteration of `for trace := range traces`: Go ranges over a map in an
\* order of its own choosing, so any trace not yet visited may come next.
CreateNodesTrace ==
    /\ pc \in {"main", "filtered", "creating"}
    /\ \E t \in DOMAIN traces \ visited :
           /\ visited' = visited \cup {t}
           /\ nodes' = IF prog = "topk"
                       THEN WalkStack(nodes, traces[t].Stack, traces[t].Count, 0, NilNode)
                       ELSE WalkStackKeep(nodes, traces[t].Stack, traces[t].Count, 0, NilNode)
    /\ pc' = "creating"
    /\ UNCHANGED <<prog, sites, traces, input, topk, nodeList, keep, textVars, binVars, topVars>>

\* The range loop is over: nodeList collects the nodes map, in any order.
CreateNodesReturn ==
    /\ pc \in {"main", "filtered", "creating"}
    /\ visited = DOMAIN traces
    /\ \E l \in Perms(DOMAIN nodes) : nodeList' = l
    /\ pc' = "created"
    /\ UNCHANGED <<prog, sites, traces, input, topk, visited, nodes, keep, textVars, binVars, topVars>>

----------------------------------------------------------------------------
(* Prune: the -keep program *)

byWeightLess(ni, nj) == nodes[ni].Count < nodes[nj].Count

\* What sort.Sort(sort.Reverse(byWeight(nodes))) may leave
SortedReverseByWeight(seq) ==
    \A i, j \in DOMAIN seq : i < j => ~byWeightLess(seq[i], seq[j])

\* for edge := range node.EdgeWeights { if pruned[edge] { delete(node.EdgeWeights, edge) } }
PruneEdges_keepAll(ew, pruned) == ew
PruneEdges(ew, pruned) == [c \in DOMAIN ew \ pruned |-> ew[c]]

Prune(k) ==
    /\ pc = "created"
    /\ prog = "keep"
    /\ keep' = k
    /\ IF k > Len(nodeList)
       THEN \* nodes[:*keep] reaches past the nodes: a run-time panic
            /\ pc' = "panic"
            /\ UNCHANGED <<nodes, nodeList>>
       ELSE \E sorted \in Perms(Range(nodeList)) :
                /\ SortedReverseByWeight(sorted)
                /\ LET topK == SliceTo(sorted, k)
                       pruned == Range(SliceFrom(sorted, k))
                   IN /\ nodes' = [n \in DOMAIN nodes |->
                                     IF n \in Range(topK)
                                     THEN [nodes[n] EXCEPT !.EdgeWeights = PruneEdges(@, pruned)]
                                     ELSE nodes[n]]
                      /\ nodeList' = topK
                /\ pc' = "pruned"
    /\ UNCHANGED <<prog, sites, traces, input, topk, visited, textVars, binVars, topVars>>

----------------------------------------------------------------------------
(* ParseHProfFile: the text trace parser *)

MaxLines == 5

DigitChars == <<"0", "1", "2", "3", "4", "5", "6", "7", "8", "9">>

IsDigit(c) == \E i \in DOMAIN DigitChars : DigitChars[i] = c

DigitVal(c) == (CHOOSE i \in DOMAIN DigitChars : DigitChars[i] = c) - 1

RECURSIVE DecimalValue(_, _)
DecimalValue(s, acc) ==
    IF s = <<>> THEN acc ELSE DecimalValue(Tail(s), 10 * acc + DigitVal(Head(s)))

\* strconv.Atoi on a text given as its characters: an optional sign, then
\* one or more decimal digits; anything else is an error.
Atoi(s) ==
    LET signed == s # <<>> /\ s[1] \in {"+", "-"}
        digits == IF signed THEN Tail(s) ELSE s
    IN IF digits = <<>> \/ \E i \in DOMAIN digits : ~IsDigit(digits[i])
       THEN [ok |-> FALSE, n |-> 0]
       ELSE [ok |-> TRUE,
             n |-> IF signed /\ s[1] = "-" THEN 0 - DecimalValue(digits, 0)
                   ELSE DecimalValue(digits, 0)]

UnknownLine == <<"U", "n", "k", "n", "o", "w", "n", " ", "l", "i", "n", "e">>

\* The stack-frame texts of the input: what follows the tab, as the three
\* groups of the traceLine pattern `^([^\(]+)\(([^\:]+):([^\)]+)\)$` (a text
\* matches the pattern in one way only, so the groups stand for the text).
FrameTexts ==
    {[name |-> "f", file |-> "A", num |-> <<"7">>],
     [name |-> "f", file |-> "A", num |-> <<"0", "7">>],
     [name |-> "g", file |-> "A", num |-> <<"7">>],
     [name |-> "g", file |-> "A", num |-> UnknownLine],
     [name |-> "g", file |-> "A", num |-> <<"-", "1">>],
     [name |-> "g", file |-> "A", num |-> <<"x">>]}

NoFrame == [name |-> "", file |-> "", num |-> <<>>]

HeaderIdTexts == {<<"1">>, <<"2">>}
RowIdTexts == {<<"1">>, <<"2">>, <<"x">>}
RowCountTexts == {<<"1">>, <<"x">>}

\* The lines of the input. kind: "TRACE" (`TRACE <num>:`), "frame" (a tab
\* and a text matching traceLine), "tabOther" (a tab and any other text),
\* "BEGIN" (CPU SAMPLES BEGIN (total = n)), "columns" (the column header),
\* "row" (a space, then six fields, the fourth count and the fifth num),
\* "rowShort" (a space, then fewer fields), "END" (CPU SAMPLES END), "other".
Line(kind, num, count, frame) == [kind |-> kind, num |-> num, count |-> count, frame |-> frame]

Lines ==
    {Line("TRACE", n, <<>>, NoFrame) : n \in HeaderIdTexts}
    \cup {Line("frame", <<>>, <<>>, f) : f \in FrameTexts}
    \cup {Line("row", n, c, NoFrame) : n \in RowIdTexts, c \in RowCountTexts}
    \cup {Line(k, <<>>, <<>>, NoFrame) :
             k \in {"tabOther", "BEGIN", "columns", "rowShort", "END", "other"}}

\* strings.HasPrefix(line, " ")
HasSpacePrefix(line) == line.kind \in {"row", "rowShort"}

\* log.Fatal: the process exits
Fatal ==
    /\ pc' = "fatal"
    /\ UNCHANGED <<sites, traces, callSites, inSamples>>

\* The key a stack-frame line has in callSites: the line without its tab.
LineKey(frame) == frame

\* Lines 156-175: header lines, threads, etc.
HeaderRules(line, inTrace1) ==
    IF line.kind = "TRACE"
    THEN LET id == Atoi(line.num).n
         IN /\ inTrace' = TRUE
            /\ currentTrace' = id
            /\ IF id \in DOMAIN traces
               THEN Fatal       \* duplicate trace with id
               ELSE /\ traces' = (id :> [Stack |-> <<>>, Count |-> 0]) @@ traces
                    /\ pc' = "scan"
                    /\ UNCHANGED <<sites, callSites, inSamples>>
    ELSE /\ inSamples' = (line.kind = "BEGIN")
         /\ inTrace' = inTrace1
         /\ pc' = "scan"
         /\ UNCHANGED <<sites, traces, callSites, currentTrace>>

\* Lines 177-203: a line of a TRACE block.
TraceRules(line) ==
    LET key == LineKey(line.frame)
        n == Atoi(line.frame.num)
    IN /\ UNCHANGED <<inTrace, currentTrace>>
       /\ IF line.kind = "frame" /\ key \in DOMAIN callSites
          THEN /\ traces' = [traces EXCEPT ![currentTrace].Stack = Append(@, callSites[key])]
               /\ pc' = "scan"
               /\ UNCHANGED <<sites, callSites, inSamples>>
          ELSE IF line.kind # "frame"
          THEN Fatal            \* cannot parse trace line
          ELSE IF ~n.ok /\ line.frame.num # UnknownLine
          THEN Fatal            \* bad line number
          ELSE LET callSite == Len(sites) + 1
               IN /\ sites' = Append(sites,
                                [Name |-> line.frame.name,
                                 Filename |-> line.frame.file,
                                 LineNumber |-> IF n.ok THEN n.n ELSE 0 - 1])
                  /\ callSites' = (key :> callSite) @@ callSites
                  /\ traces' = [traces EXCEPT ![currentTrace].Stack = Append(@, callSite)]
                  /\ pc' = "scan"
                  /\ UNCHANGED inSamples

\* trace.Count = count
SetCount_keeps(ts, id, count) == ts
SetCount(ts, id, count) == [ts EXCEPT ![id].Count = count]

\* Lines 205-232: a line of the CPU SAMPLES table.
SamplesRules(line, inTrace1) ==
    LET count == Atoi(line.count)
        id == Atoi(line.num)
    IN /\ inTrace' = inTrace1
       /\ UNCHANGED currentTrace
       /\ IF HasSpacePrefix(line)
          THEN IF line.kind = "rowShort" THEN Fatal     \* unexpected number of columns
               ELSE IF ~count.ok THEN Fatal             \* cannot parse count
               ELSE IF ~id.ok THEN Fatal                \* cannot parse id
               ELSE IF id.n \notin DOMAIN traces THEN Fatal   \* no trace with such id
               ELSE /\ traces' = SetCount(traces, id.n, count.n)
                    /\ pc' = "scan"
                    /\ UNCHANGED <<sites, callSites, inSamples>>
          ELSE /\ inSamples' = (line.kind # "END")
               /\ pc' = "scan"
               /\ UNCHANGED <<sites, traces, callSites>>

\* if inTrace && !strings.HasPrefix(line, "\t") { inTrace = false }
HasTabPrefix_always(line) == TRUE
HasTabPrefix(line) == line.kind \in {"frame", "tabOther"}

\* The body of `for scanner.Scan()` for one line.
Scan(line) ==
    /\ pc = "scan"
    /\ lineNumber < MaxLines
    /\ lineNumber' = lineNumber + 1
    /\ LET inTrace1 == inTrace /\ HasTabPrefix(line)     \* lines 151-153
       IN IF ~inTrace1 /\ ~inSamples THEN HeaderRules(line, inTrace1)
          ELSE IF inTrace1 THEN TraceRules(line)
          ELSE SamplesRules(line, inTrace1)
    /\ UNCHANGED <<prog, input, topk, visited, nodes, nodeList, keep, binVars, topVars>>

\* One turn of `for scanner.Scan()`: the next line of the file is read and
\* handled.
ScanLine == \E line \in Lines : Scan(line)

\* scanner.Scan() reports the end of the file: ParseHProfFile returns traces.
ScanEOF ==
    /\ pc = "scan"
    /\ pc' = "main"
    /\ input' = traces
    /\ UNCHANGED <<prog, sites, traces, topk, visited, nodes, nodeList, keep, textVars, binVars, topVars>>

\* The parser's variables where no file is being parsed.
TextIdle ==
    /\ lineNumber = 0
    /\ inTrace = FALSE
    /\ inSamples = FALSE
    /\ callSites = EmptyMap
    /\ currentTrace = 0

----------------------------------------------------------------------------
(* hprofbin: the binary decoder.  The byte stream is the decoder's input:  *)
(* every read takes the next value from it, whatever that value is, or     *)
(* finds that the stream has ended.  An action reads one record (or one    *)
(* sub-record of a HEAP DUMP SEGMENT); `cut` is the number of its reads    *)
(* that the stream still serves.  int is 64 bits wide, so int(r.u4()) is   *)
(* never negative.  The tags and subTags tallies, which are only printed,  *)
(* are left out.                                                           *)

MaxRecords == 4
MaxSubRecords == 2

instanceHeaderSize == 16
objectArrayHeaderSize == 24
primitiveArrayHeaderSize == 24

\* len(r.scratch)
ScratchLen == 8

IDs == {0, 1}
ClassSerials == {1}
TraceSerials == {1, 2}
ThreadSerials == {1, 2}
Bytes == {"x"}
\* The declared lengths of the STRING records of the input.
StringLens == {4, 8, 9}
\* The declared lengths of its HEAP DUMP SEGMENT records.
SegmentLens == {0, 9, 26, 71}
\* The declared lengths and counts inside its sub-records.
DataLens == {0, 1}
\* Its basic-type codes: object, boolean, and one that is none.
TypeCodes == {2, 4, 3}

Put(m, k, v) == (k :> v) @@ m

\* r.error(err): the panic with a readerError, which readAll recovers and
\* returns.  (Error_readsOn: a decoder that notes the error and reads on.)
Error_readsOn(e) ==
    /\ pc' = "records"
    /\ err' = e
    /\ UNCHANGED <<idSize, tables, sizes, remaining>>

Error(e) ==
    /\ pc' = "returned"
    /\ err' = e
    /\ UNCHANGED <<idSize, tables, sizes, remaining>>

\* A read at the end of the stream: r.error(io.EOF or io.ErrUnexpectedEOF).
EOFError == Error("EOF")

\* A run-time panic that is no readerError: readAll's recover panics again.
Panic ==
    /\ pc' = "panicked"
    /\ UNCHANGED <<idSize, tables, sizes, remaining, err>>

BinFrame == UNCHANGED <<graphVars, textVars, topVars>>

\* readHeader
readHeader(magicOK, size, cut) ==
    /\ pc = "header"
    /\ IF cut < 1 THEN EOFError
       ELSE IF ~magicOK THEN Error("bad header string")
       ELSE IF cut < 2 THEN EOFError
       ELSE IF size # 8 THEN Error("only id size of 8 handled")
       ELSE IF cut < 4 THEN EOFError
       ELSE /\ idSize' = size
            /\ pc' = "records"
            /\ UNCHANGED <<tables, sizes, remaining, err>>
    /\ UNCHANGED <<records, subRecords>>
    /\ BinFrame

\* readRecord finds the stream at its end where a tag should be: done.
readRecordEOF ==
    /\ pc = "records"
    /\ pc' = "returned"
    /\ err' = "nil"
    /\ UNCHANGED <<idSize, tables, sizes, remaining, records, subRecords>>
    /\ BinFrame

\* The first lines of readRecord, for a record whose tag is there: the
\* timestamp and the length are read.
RecordHead ==
    /\ pc = "records"
    /\ records < MaxRecords
    /\ records' = records + 1
    /\ UNCHANGED subRecords
    /\ BinFrame

\* The stream ends inside the timestamp or the length.
readRecordCut ==
    /\ RecordHead
    /\ EOFError

\* r.bytes(k): a slice of scratch or a new one, then io.ReadFull.
\* "panic": k < 0, scratch[:k] is out of range.  "eof": the stream is
\* short of k bytes.  "ok": the bytes are read.
bytes(k, served) ==
    IF k <= ScratchLen /\ k < 0 THEN "panic"
    ELSE IF k > 0 /\ ~served THEN "eof"
    ELSE "ok"

\* case 0x01: readString(len)
readString(len, id, text, cut) ==
    /\ RecordHead
    /\ IF cut < 1 THEN EOFError
       ELSE LET got == bytes(len - idSize, cut >= 2)
            IN IF got = "panic" THEN Panic
               ELSE IF got = "eof" THEN EOFError
               ELSE /\ strings' = Put(strings, id, text)
                    /\ pc' = "records"
                    /\ UNCHANGED <<idSize, classByID, classBySerial, frameByID,
                                   traceBySerial, sizes, remaining, err>>

\* Whether a lookup in a table finds the key
Defined(table, key) == key \in DOMAIN table

\* case 0x02: readClass
readClass(serial, id, stackTraceSerial, nameID, cut) ==
    /\ RecordHead
    /\ IF cut < 4 THEN EOFError
       ELSE IF ~Defined(strings, nameID) THEN Error("class referred to unknown name")
       ELSE LET c == [serial |-> serial, id |-> id,
                      stackTraceSerial |-> stackTraceSerial, name |-> strings[nameID]]
            IN /\ classByID' = Put(classByID, id, c)
               /\ classBySerial' = Put(classBySerial, serial, c)
               /\ pc' = "records"
               /\ UNCHANGED <<idSize, strings, frameByID, traceBySerial, sizes, remaining, err>>

unknownFile == <<"<unknown>">>

\* case 0x04: readFrame
readFrame(id, nameSid, sigSid, fileSid, serial, lineNum, cut) ==
    /\ RecordHead
    /\ IF cut < 2 THEN EOFError
       ELSE IF ~Defined(strings, nameSid)
       THEN Error("frame referred to unknown method name string")
       ELSE IF cut < 3 THEN EOFError
       ELSE IF ~Defined(strings, sigSid)
       THEN Error("frame referred to unknown method signature string")
       ELSE IF cut < 4 THEN EOFError
       ELSE IF fileSid > 0 /\ ~Defined(strings, fileSid)
       THEN Error("frame referred to unknown filename string")
       ELSE IF cut < 5 THEN EOFError
       ELSE IF ~Defined(classBySerial, serial)
       THEN Error("frame referred to unknown class serial")
       ELSE IF cut < 6 THEN EOFError
       ELSE LET f == [id |-> id,
                      methodName |-> strings[nameSid],
                      methodSig |-> strings[sigSid],
                      filename |-> IF fileSid > 0 THEN strings[fileSid] ELSE unknownFile,
                      class |-> classBySerial[serial],
                      lineNum |-> lineNum]
            IN /\ frameByID' = Put(frameByID, id, f)
               /\ pc' = "records"
               /\ UNCHANGED <<idSize, strings, classByID, classBySerial,
                              traceBySerial, sizes, remaining, err>>

\* The loop of readTrace over the frame ids, from the i-th on: "ok", or the
\* first failure.  Read number 3 + i is that of the i-th id.
RECURSIVE ResolveFrames(_, _, _)
ResolveFrames(ids, i, cut) ==
    IF i > Len(ids) THEN "ok"
    ELSE IF cut < 3 + i THEN "EOF"
    ELSE IF ~Defined(frameByID, ids[i]) THEN "trace referred to unknown frame id"
    ELSE ResolveFrames(ids, i + 1, cut)

\* case 0x05: readTrace
readTrace(serial, threadSerial, ids, cut) ==
    /\ RecordHead
    /\ IF cut < 3 THEN EOFError
       ELSE LET res == ResolveFrames(ids, 1, cut)
            IN IF res # "ok" THEN Error(res)
               ELSE LET t == [serial |-> serial, threadSerial |-> threadSerial,
                              frames |-> [i \in DOMAIN ids |-> frameByID[ids[i]]]]
                    IN /\ traceBySerial' = Put(traceBySerial, serial, t)
                       /\ pc' = "records"
                       /\ UNCHANGED <<idSize, strings, classByID, classBySerial,
                                      frameByID, sizes, remaining, err>>

\* default: r.ignore(len)
readOther(len, cut) ==
    /\ RecordHead
    /\ IF len > 0 /\ cut < 1 THEN EOFError
       ELSE /\ pc' = "records"
            /\ UNCHANGED <<idSize, tables, sizes, remaining, err>>

\* case 0x1c: the HEAP DUMP SEGMENT loop is entered with its n = len
readSegment(len) ==
    /\ RecordHead
    /\ remaining' = len
    /\ pc' = IF len > 0 THEN "segment" ELSE "records"
    /\ UNCHANGED <<idSize, tables, sizes, err>>

\* r.basicSize(typ); 0 - 1 stands for r.errorf("unexpected basic type")
basicSize(typ) ==
    CASE typ = 2 -> idSize
      [] typ \in {4, 8} -> 1
      [] typ \in {5, 9} -> 2
      [] typ \in {6, 10} -> 4
      [] typ \in {7, 11} -> 8
      [] OTHER -> 0 - 1

\* The sub-tags of the GC roots, 0xff and 0x01 to 0x08
RootTags == {255, 1, 2, 3, 4, 5, 6, 7, 8}

\* The reads a root sub-record makes after its tag, and the bytes they take
RootReads(tag) ==
    CASE tag \in {255, 5, 7} -> 1
      [] tag \in {1, 4, 6} -> 2
      [] OTHER -> 3

RootBytes(tag) ==
    CASE tag \in {255, 5, 7} -> idSize
      [] tag = 1 -> idSize + idSize
      [] tag \in {4, 6} -> idSize + 4
      [] OTHER -> idSize + 4 + 4

\* readHeapDumpSegment returned `used`: n -= used, and the loop goes on while n > 0
SubRecordDone(used) ==
    /\ remaining' = remaining - used
    /\ pc' = IF remaining - used > 0 THEN "segment" ELSE "records"
    /\ UNCHANGED <<idSize, tables, err>>

SubRecordHead ==
    /\ pc = "segment"
    /\ subRecords < MaxSubRecords
    /\ subRecords' = subRecords + 1
    /\ UNCHANGED records
    /\ BinFrame

\* case 0xff, 0x01 .. 0x08: the GC roots
readRoot(tag, cut) ==
    /\ SubRecordHead
    /\ IF cut < 1 + RootReads(tag) THEN EOFError
       ELSE /\ SubRecordDone(1 + RootBytes(tag))
            /\ UNCHANGED sizes

\* The bytes of the entries of a constant pool (head = 2) or of the static
\* fields (head = idSize), each a head, a type code and a value.
RECURSIVE EntryBytes(_, _)
EntryBytes(types, head) ==
    IF types = <<>> THEN 0
    ELSE head + 1 + basicSize(Head(types)) + EntryBytes(Tail(types), head)

\* case 0x20: CLASS DUMP.  cut: 0, the stream ends before the tag; 1, after
\* it; 2, after the class object id, inside the fixed fields; 3, it serves
\* the whole sub-record.
readClassDump(classObjectID, cp, sf, numIF, cut) ==
    /\ SubRecordHead
    /\ IF cut < 2 THEN EOFError
       ELSE IF ~Defined(classByID, classObjectID)
       THEN Error("class dump referred to bad class object id")
       ELSE IF cut < 3 THEN EOFError
       ELSE IF \E i \in DOMAIN cp : basicSize(cp[i]) < 0 THEN Error("unexpected basic type")
       ELSE IF \E i \in DOMAIN sf : basicSize(sf[i]) < 0 THEN Error("unexpected basic type")
       ELSE /\ SubRecordDone(1 + idSize + 4 + idSize + idSize + idSize + idSize + idSize
                               + idSize + 4
                               + 2 + EntryBytes(cp, 2)
                               + 2 + EntryBytes(sf, idSize)
                               + 2 + numIF * (idSize + 1))
            /\ UNCHANGED sizes

\* r.traceSizes[traceSerial] += size
AddSize_assign(ts, serial, size) == Put(ts, serial, size)
AddSize(ts, serial, size) ==
    IF serial \in DOMAIN ts THEN [ts EXCEPT ![serial] = @ + size] ELSE Put(ts, serial, size)

\* size := int64(nn) + instanceHeaderSize
InstanceSize(nn) == nn + instanceHeaderSize

\* case 0x21: INSTANCE DUMP
readInstanceDump(traceSerial, nn, cut) ==
    /\ SubRecordHead
    /\ IF cut < 5 \/ (nn > 0 /\ cut < 6) THEN EOFError
       ELSE /\ SubRecordDone(1 + idSize + 4 + idSize + 4 + nn)
            /\ total' = total + InstanceSize(nn)
            /\ instanceOverhead' = instanceOverhead + instanceHeaderSize
            /\ traceSizes' = AddSize(traceSizes, traceSerial, InstanceSize(nn))
            /\ UNCHANGED <<objectArrayOverhead, primitiveArrayOverhead>>

\* case 0x22: OBJECT ARRAY DUMP
readObjectArrayDump(traceSerial, nn, cut) ==
    /\ SubRecordHead
    /\ IF cut < 5 + nn THEN EOFError
       ELSE LET size == nn * idSize + objectArrayHeaderSize
            IN /\ SubRecordDone(1 + idSize + 4 + 4 + idSize + nn * idSize)
               /\ total' = total + size
               /\ objectArrayOverhead' = objectArrayOverhead + objectArrayHeaderSize
               /\ traceSizes' = AddSize(traceSizes, traceSerial, size)
               /\ UNCHANGED <<instanceOverhead, primitiveArrayOverhead>>

\* case 0x23: PRIMITIVE ARRAY DUMP
readPrimitiveArrayDump(traceSerial, nn, typ, cut) ==
    /\ SubRecordHead
    /\ LET w == basicSize(typ)
           size == nn * w + primitiveArrayHeaderSize
       IN IF cut < 5 THEN EOFError
          ELSE IF w < 0 THEN Error("unexpected basic type")
          ELSE IF nn * w > 0 /\ cut < 6 THEN EOFError
          ELSE /\ SubRecordDone(1 + idSize + 4 + 4 + 1 + nn * w)
               /\ total' = total + size
               /\ primitiveArrayOverhead' = primitiveArrayOverhead + primitiveArrayHeaderSize
               /\ traceSizes' = AddSize(traceSizes, traceSerial, size)
               /\ UNCHANGED <<instanceOverhead, objectArrayOverhead>>

\* default: any other sub-tag
readUnknownSubTag(cut) ==
    /\ SubRecordHead
    /\ IF cut < 1 THEN EOFError ELSE Error("unknown sub-tag")

\* The decoder's variables where no decoder runs.
BinIdle ==
    /\ idSize = 0
    /\ strings = EmptyMap
    /\ classByID = EmptyMap
    /\ classBySerial = EmptyMap
    /\ frameByID = EmptyMap
    /\ traceBySerial = EmptyMap
    /\ total = 0
    /\ instanceOverhead = 0
    /\ objectArrayOverhead = 0
    /\ primitiveArrayOverhead = 0
    /\ traceSizes = EmptyMap
    /\ remaining = 0
    /\ records = 0
    /\ subRecords = 0
    /\ err = ""

----------------------------------------------------------------------------
(* top10: the ten largest entries of traceSizes, by a bounded heap *)

\* The capacity of the heap: the 10 of `len(h) < 10`.
Top == 10

MaxEntries == 11

\* serialSizes.Less and Swap, on 0-based indices
Less(h, i, j) == h[i + 1].size < h[j + 1].size
Swap(h, i, j) == [h EXCEPT ![i + 1] = h[j + 1], ![j + 1] = h[i + 1]]

\* container/heap's up
RECURSIVE up(_, _)
up(h, j) ==
    LET i == IF j = 0 THEN 0 ELSE (j - 1) \div 2      \* parent
    IN IF i = j \/ ~Less(h, j, i) THEN h ELSE up(Swap(h, i, j), i)

\* container/heap's down, over h[:len]
RECURSIVE down(_, _, _)
down(h, i, len) ==
    LET j1 == 2 * i + 1
        j2 == j1 + 1
        j == IF j2 < len /\ Less(h, j2, j1) THEN j2 ELSE j1
    IN IF j1 >= len THEN h
       ELSE IF ~Less(h, j, i) THEN h
       ELSE down(Swap(h, i, j), j, len)

\* heap.Push(&h, ss)
heapPush(h, ss) == up(Append(h, ss), Len(h))

\* heap.Fix(&h, i): if !down(h, i, n) { up(h, i) }.  The entries have
\* serials of their own, so down has moved one exactly if h has changed.
heapFix(h, i) ==
    LET d == down(h, i, Len(h))
    IN IF d = h THEN up(h, i) ELSE d

\* if ss.size > h[0].size
Replaces_smaller(ss, h) == ss.size < h[1].size
Replaces(ss, h) == ss.size > h[1].size

\* The range loop of top10 from the k-th entry on
RECURSIVE top10Loop(_, _, _)
top10Loop(entries, k, h) ==
    IF k > Len(entries) THEN h
    ELSE LET ss == entries[k]
         IN IF Len(h) < Top THEN top10Loop(entries, k + 1, heapPush(h, ss))
            ELSE IF Replaces(ss, h)
            THEN top10Loop(entries, k + 1, heapFix([h EXCEPT ![1] = ss], 0))
            ELSE top10Loop(entries, k + 1, h)

\* for i := 0; i < len(h)/2; i++ { j := len(h) - 1 - i; h[i], h[j] = h[j], h[i] }
Reversed(h) == [i \in 1..Len(h) |-> h[Len(h) + 1 - i]]

top10(entries) == Reversed(top10Loop(entries, 1, <<>>))

\* The maps given to top10, each in an order its range may take.  The
\* serials are 1, 2, ... in that order; entry i is of size class c[i] and,
\* within its class, as large as its place i (step 1), as its place counted
\* from the end (step -1), or as every other of the class (step 0).
SizeClasses == {0, 1}
Steps == {0 - 1, 0, 1}

Entries(c, step) ==
    [i \in DOMAIN c |-> [serial |-> i, size |-> 100 * c[i] + step * i + 50]]

TopInputs ==
    {Entries(c, step) : c \in UNION {[1..k -> SizeClasses] : k \in 0..MaxEntries},
                        step \in Steps}

CallTop10 ==
    /\ pc = "top10"
    /\ result' = top10(ranged)
    /\ pc' = "top10 returned"
    /\ UNCHANGED <<ranged, graphVars, textVars, binVars>>

\* top10's variables where it is not running.
TopIdle ==
    /\ ranged = <<>>
    /\ result = <<>>

----------------------------------------------------------------------------
(* The aggregate-and-filter programs over a parsed trace set *)

InitGraph ==
    /\ pc = "main"
    /\ prog \in Progs
    /\ sites = GraphSites
    /\ traces \in TraceSets
    /\ input = traces
    /\ topk = 0
    /\ visited = {}
    /\ nodes = EmptyMap
    /\ nodeList = <<>>
    /\ keep = 0
    /\ TextIdle
    /\ BinIdle
    /\ TopIdle

NextGraph ==
    \/ \E k \in 1..(MaxTraces + 1) : FilterTopK(k)
    \/ CreateNodesTrace
    \/ CreateNodesReturn
    \/ \E k \in 0..(Cardinality(SitePtrs) + 1) : Prune(k)

SpecGraph == InitGraph /\ [][NextGraph]_vars

----------------------------------------------------------------------------
(* The text programs from the file on: ParseHProfFile, then CreateNodes *)

InitText ==
    /\ pc = "scan"
    /\ prog \in Progs
    /\ sites = <<>>
    /\ traces = EmptyMap
    /\ input = EmptyMap
    /\ topk = 0
    /\ visited = {}
    /\ nodes = EmptyMap
    /\ nodeList = <<>>
    /\ keep = 0
    /\ TextIdle
    /\ BinIdle
    /\ TopIdle

NextText ==
    \/ ScanLine
    \/ ScanEOF
    \/ CreateNodesTrace
    \/ CreateNodesReturn

SpecText == InitText /\ [][NextText]_vars

----------------------------------------------------------------------------
(* readAll over a byte stream *)

MaxFrames == 1

FrameIdSeqs == UNION {[1..k -> IDs] : k \in 0..MaxFrames}
\* The tables of the CLASS DUMP sub-records of the input: the type codes of
\* the constant pool entries and of the static fields, and the number of
\* instance fields.
ClassDumpTables ==
    {[cp |-> <<>>, sf |-> <<>>, numIF |-> 0],
     [cp |-> <<2>>, sf |-> <<4>>, numIF |-> 1],
     [cp |-> <<3>>, sf |-> <<>>, numIF |-> 0],
     [cp |-> <<>>, sf |-> <<3>>, numIF |-> 0]}

InitBin ==
    /\ pc = "header"
    /\ prog = "bin"
    /\ sites = <<>>
    /\ traces = EmptyMap
    /\ input = EmptyMap
    /\ topk = 0
    /\ visited = {}
    /\ nodes = EmptyMap
    /\ nodeList = <<>>
    /\ keep = 0
    /\ TextIdle
    /\ BinIdle
    /\ TopIdle

\* Streams of STRING, LOAD CLASS, STACK FRAME, STACK TRACE and other
\* records.  No HEAP DUMP SEGMENT is among them: a segment neither reads
\* nor writes the five tables but for the classByID lookup of a CLASS DUMP.
NextBin ==
    \/ \E magicOK \in BOOLEAN, size \in {4, 8}, cut \in 0..4 : readHeader(magicOK, size, cut)
    \/ readRecordEOF
    \/ readRecordCut
    \/ \E len \in StringLens, id \in IDs, cut \in 0..2 :
           \E text \in [1..(IF len > idSize THEN len - idSize ELSE 0) -> Bytes] :
               readString(len, id, text, cut)
    \/ \E serial \in ClassSerials, id \in IDs, sts \in TraceSerials, nameID \in IDs, cut \in 0..4 :
           readClass(serial, id, sts, nameID, cut)
    \/ \E id \in IDs, nameSid \in IDs, sigSid \in IDs, fileSid \in IDs,
          serial \in ClassSerials, cut \in 0..6 :
           readFrame(id, nameSid, sigSid, fileSid, serial, 7, cut)
    \/ \E serial \in TraceSerials, threadSerial \in ThreadSerials, ids \in FrameIdSeqs,
          cut \in 0..(3 + MaxFrames) :
           readTrace(serial, threadSerial, ids, cut)
    \/ \E len \in DataLens, cut \in 0..1 : readOther(len, cut)

SpecBin == InitBin /\ [][NextBin]_vars

\* Streams of STRING, LOAD CLASS and HEAP DUMP SEGMENT records: what
\* the size accounting reads.  The strings and classes are there for the
\* CLASS DUMP sub-records to find.
NextHeap ==
    \/ \E cut \in 0..4 : readHeader(TRUE, 8, cut)
    \/ readRecordEOF
    \/ readRecordCut
    \/ \E cut \in 1..2 : readString(9, 1, <<"x">>, cut)
    \/ \E id \in IDs, cut \in 3..4 : readClass(1, id, 1, 1, cut)
    \/ \E len \in SegmentLens : readSegment(len)
    \/ \E tag \in RootTags, cut \in {1, 4} : readRoot(tag, cut)
    \/ \E id \in IDs, t \in ClassDumpTables, cut \in 1..3 :
           readClassDump(id, t.cp, t.sf, t.numIF, cut)
    \/ \E ts \in TraceSerials, nn \in DataLens, cut \in 5..6 : readInstanceDump(ts, nn, cut)
    \/ \E ts \in TraceSerials, nn \in DataLens, cut \in 5..6 : readObjectArrayDump(ts, nn, cut)
    \/ \E ts \in TraceSerials, nn \in DataLens, typ \in TypeCodes, cut \in 5..6 :
           readPrimitiveArrayDump(ts, nn, typ, cut)
    \/ \E cut \in 0..1 : readUnknownSubTag(cut)

SpecHeap == InitBin /\ [][NextHeap]_vars

----------------------------------------------------------------------------
(* top10 over a map *)

InitTop ==
    /\ pc = "top10"
    /\ prog = "bin"
    /\ sites = <<>>
    /\ traces = EmptyMap
    /\ input = EmptyMap
    /\ topk = 0
    /\ visited = {}
    /\ nodes = EmptyMap
    /\ nodeList = <<>>
    /\ keep = 0
    /\ TextIdle
    /\ BinIdle
    /\ ranged \in TopInputs
    /\ result = <<>>

NextTop == CallTop10

SpecTop == InitTop /\ [][NextTop]_vars

----------------------------------------------------------------------------
(* Properties of the aggregator and the filters, under SpecGraph *)

SumCounts(ns) == SumFn([n \in DOMAIN ns |-> ns[n].Count])

Contains(stack, s) == \E i \in DOMAIN stack : stack[i] = s

\* How often site s stands at a 0-based stack position >= from.
Occurrences(stack, s, from) == Cardinality({i \in DOMAIN stack : i > from /\ stack[i] = s})

\* The sum of Count over the traces of ts that have a frame.
CountOverNonEmpty(ts) ==
    SumFn([t \in {u \in DOMAIN ts : ts[u].Stack # <<>>} |-> ts[t].Count])

C3_CumulativeOncePerTrace ==
    (pc = "created" /\ prog = "topk") =>
        \A s \in DOMAIN nodes :
            nodes[s].CumulativeCount =
                SumFn([t \in {u \in DOMAIN traces : Contains(traces[u].Stack, s)}
                          |-> traces[t].Count])

\* C4, as stated: after CreateNodes the weights in a node's EdgeWeights add
\* up to the counts of the traces in which its call site is not the leaf.
\* "Not the leaf" is read both ways: the site is in the stack and position 0
\* holds another site, or the site stands at some position other than 0.
C4_EdgeWeights_AsStated ==
    pc = "created" =>
        \A s \in DOMAIN nodes :
            LET w == SumFn(nodes[s].EdgeWeights)
                notLeaf == SumFn([t \in {u \in DOMAIN traces :
                                            /\ Contains(traces[u].Stack, s)
                                            /\ traces[u].Stack[1] # s}
                                     |-> traces[t].Count])
                belowLeaf == SumFn([t \in {u \in DOMAIN traces :
                                              Occurrences(traces[u].Stack, s, 1) > 0}
                                       |-> traces[t].Count])
            IN w = notLeaf \/ w = belowLeaf

\* C4, amended: after CreateNodes the weights in a node's EdgeWeights add up
\* to the sum, over the input traces, of the trace's count times the number
\* of stack positions other than position 0 at which the node's call site
\* stands.
C4_EdgeWeights ==
    pc = "created" =>
        \A s \in DOMAIN nodes :
            SumFn(nodes[s].EdgeWeights) =
                SumFn([t \in DOMAIN traces |->
                          traces[t].Count * Occurrences(traces[t].Stack, s, 1)])

C4_Witness ==
    /\ pc = "created"
    /\ \E t \in DOMAIN traces : \E s \in DOMAIN nodes :
           /\ traces[t].Count > 0
           /\ Occurrences(traces[t].Stack, s, 1) = 2
           /\ SumFn(nodes[s].EdgeWeights) >= 2 * traces[t].Count

\* C5: after Prune to keep, for every keep from 0 to the number of nodes,
\* exactly keep nodes are returned, none of them has a smaller Count than a
\* dropped node, and every key of a returned node's EdgeWeights is a
\* returned node.
C5_PruneClosure ==
    pc = "pruned" =>
        LET kept == Range(nodeList)
            dropped == DOMAIN nodes \ kept
        IN /\ Len(nodeList) = keep
           /\ Cardinality(kept) = keep
           /\ \A r \in kept : \A d \in dropped : nodes[r].Count >= nodes[d].Count
           /\ \A r \in kept : DOMAIN nodes[r].EdgeWeights \subseteq kept

\* A kept node that had an edge to a dropped node: the dropped node stands
\* right before it in some stack.
C5_Witness ==
    /\ pc = "pruned"
    /\ \E r \in Range(nodeList) : \E d \in DOMAIN nodes \ Range(nodeList) :
           /\ nodes[r].Count > nodes[d].Count
           /\ \E t \in DOMAIN traces : \E i \in 1..(Len(traces[t].Stack) - 1) :
                  traces[t].Stack[i] = d /\ traces[t].Stack[i + 1] = r

\* C10: FilterTopK(traces, k) with 0 < k <= len(traces) leaves exactly k
\* traces, none of them with a smaller Count than a removed trace, and each
\* of them as it was.
C10_FilterTopK ==
    (topk > 0 /\ pc # "panic") =>
        LET kept == DOMAIN traces
            removed == DOMAIN input \ kept
        IN /\ Cardinality(kept) = topk
           /\ kept \subseteq DOMAIN input
           /\ \A r \in kept : \A d \in removed : input[r].Count >= input[d].Count
           /\ \A r \in kept : traces[r] = input[r]

C10_Witness ==
    /\ pc = "filtered"
    /\ \E r \in DOMAIN traces : \E d \in DOMAIN input \ DOMAIN traces :
           input[r].Count > input[d].Count

----------------------------------------------------------------------------
(* Properties of the text parser, under SpecText *)

\* The identity tuple of a CallSite: (method name, source filename, line number).
Tuple(site) == <<sites[site].Name, sites[site].Filename, sites[site].LineNumber>>

\* C1, as stated: stack-frame lines that parse to the same (method name,
\* source filename, line number) are resolved to one CallSite object, and
\* CreateNodes over the parsed traces returns one Node per distinct tuple.
C1_OneCallSitePerTuple ==
    /\ \A a, b \in DOMAIN sites : Tuple(a) = Tuple(b) => a = b
    /\ pc = "created" =>
           \A i, j \in DOMAIN nodeList :
               Tuple(nodeList[i]) = Tuple(nodeList[j]) => i = j

----------------------------------------------------------------------------
(* Properties of the scan loop of ParseHProfFile, under SpecText *)

\* C14: while ParseHProfFile scans, inTrace and inSamples are never both
\* true.  A trace is opened, and the samples table entered, only by a line
\* handled in header mode: not inside the samples table, and outside a
\* trace block or as the line that ends it.  A line without a tab that
\* follows a trace block ends the block and is handled as a header line in
\* the same turn of the loop: a TRACE header of a new id opens its trace
\* (one of an id already there is fatal), a CPU SAMPLES BEGIN line enters
\* the samples table, any other line leaves the parser in header mode.
C14_ThreeModes ==
    /\ ~(inTrace /\ inSamples)
    /\ [][/\ ~(inTrace' /\ inSamples')
          /\ (DOMAIN traces' # DOMAIN traces \/ (inSamples' /\ ~inSamples)) =>
                 /\ ~inSamples
                 /\ \E line \in Lines :
                        Scan(line) /\ (inTrace => ~HasTabPrefix(line))
          /\ \A line \in Lines :
                 (inTrace /\ line.kind \notin {"frame", "tabOther"} /\ Scan(line)) =>
                     CASE line.kind = "TRACE" ->
                              LET id == Atoi(line.num).n
                              IN IF id \in DOMAIN traces THEN pc' = "fatal"
                                 ELSE /\ pc' = "scan"
                                      /\ inTrace' /\ ~inSamples'
                                      /\ currentTrace' = id
                                      /\ DOMAIN traces' = DOMAIN traces \cup {id}
                       [] line.kind = "BEGIN" ->
                              pc' = "scan" /\ inSamples' /\ ~inTrace'
                       [] OTHER ->
                              pc' = "scan" /\ ~inSamples' /\ ~inTrace']_vars

\* The third line of a file is a TRACE header right under a frame line of
\* the trace before it, and has opened the second trace.
C14_Witness ==
    /\ pc = "scan" /\ lineNumber = 3 /\ inTrace
    /\ Cardinality(DOMAIN traces) = 2
    /\ \E t \in DOMAIN traces : traces[t].Stack # <<>>

\* C15: in the samples table a line that begins with a space and has six
\* fields sets the Count of the trace whose id is its fifth field to its
\* fourth field, and is fatal if no TRACE header has opened a trace of that
\* id (or if a field is no number).  A trace begins with Count 0 and its
\* Count changes by such a row only, so after a parse that has returned
\* every trace that no row of the table names has Count 0.
C15_SamplesRows ==
    [][/\ \A line \in Lines :
              (inSamples /\ line.kind = "row" /\ Scan(line)) =>
                  LET count == Atoi(line.count)
                      id == Atoi(line.num)
                  IN IF count.ok /\ id.ok /\ id.n \in DOMAIN traces
                     THEN /\ pc' = "scan"
                          /\ traces'[id.n].Count = count.n
                          /\ \A t \in DOMAIN traces \ {id.n} : traces'[t] = traces[t]
                          /\ traces'[id.n].Stack = traces[id.n].Stack
                     ELSE pc' = "fatal" /\ traces' = traces
       /\ \A t \in DOMAIN traces' :
              IF t \in DOMAIN traces
              THEN traces'[t].Count # traces[t].Count =>
                       \E line \in Lines :
                           /\ inSamples /\ line.kind = "row"
                           /\ Atoi(line.num).n = t
                           /\ Scan(line)
              ELSE traces'[t].Count = 0
       /\ pc' = "main" => input' = traces]_vars

\* A parse has returned two traces, one that a row has given Count 1 and
\* one that no row names.
C15_Witness ==
    /\ pc = "main"
    /\ \E t, u \in DOMAIN input : input[t].Count = 1 /\ input[u].Count = 0

----------------------------------------------------------------------------
(* Properties of the binary decoder, under SpecHeap and SpecBin *)

\* C6: at every point of a decode, after each sub-record and after an
\* abort, total is the sum of traceSizes over the trace serials, and none
\* of the three overhead counters exceeds total.
C6_SizeAccounting ==
    /\ total = SumFn(traceSizes)
    /\ instanceOverhead <= total
    /\ objectArrayOverhead <= total
    /\ primitiveArrayOverhead <= total

\* A decode that has aborted after sub-records of two kinds and two serials.
C6_Witness ==
    /\ pc = "returned" /\ err = "EOF"
    /\ DOMAIN traceSizes = TraceSerials
    /\ instanceOverhead > 0
    /\ primitiveArrayOverhead > 0
    /\ total > instanceOverhead + primitiveArrayOverhead

\* readAll has returned an error and the tables are as they were.
Aborted ==
    /\ pc' = "returned"
    /\ err' \notin {"", "nil"}
    /\ UNCHANGED tables

\* C8: a LOAD CLASS, STACK FRAME or STACK TRACE record that refers to a
\* string id, class serial or frame id which no record before it has
\* defined makes readAll return an error; its class, frame or trace is added
\* to no table; and once readAll has returned no record is read.  (A file
\* name id of 0 refers to no string: it says there is no file name.)
C8_UndefinedReferenceAborts ==
    [][/\ pc # "returned"
       /\ \/ Aborted
          \/ /\ \A nameID \in IDs \ DOMAIN strings :
                    \A serial \in ClassSerials, id \in IDs, sts \in TraceSerials, cut \in 0..4 :
                        ~readClass(serial, id, sts, nameID, cut)
             /\ \A nameSid \in IDs, sigSid \in IDs, fileSid \in IDs, serial \in ClassSerials :
                    (\/ nameSid \notin DOMAIN strings
                     \/ sigSid \notin DOMAIN strings
                     \/ fileSid # 0 /\ fileSid \notin DOMAIN strings
                     \/ serial \notin DOMAIN classBySerial)
                        => \A id \in IDs, cut \in 0..6 :
                               ~readFrame(id, nameSid, sigSid, fileSid, serial, 7, cut)
             /\ \A ids \in FrameIdSeqs :
                    (\E i \in DOMAIN ids : ids[i] \notin DOMAIN frameByID)
                        => \A serial \in TraceSerials, threadSerial \in ThreadSerials,
                              cut \in 0..(3 + MaxFrames) :
                               ~readTrace(serial, threadSerial, ids, cut)]_vars

\* A frame whose strings are defined and whose class is not has stopped a
\* decode that had filled tables.
C8_Witness ==
    /\ pc = "returned"
    /\ err = "frame referred to unknown class serial"
    /\ strings # EmptyMap

\* C9, as stated: whatever the stream, readAll ends by returning nil or an
\* error; no malformed record ends the decode in another way.
C9_ReadAllReturns ==
    /\ pc # "panicked"
    /\ pc = "returned" => err # ""

\* C11, as stated: when the sub-records of a HEAP DUMP SEGMENT run past the
\* declared length of the record (its n falls below 0), readAll returns an
\* error; it does not go on to read the next record.
C11_SegmentOverrunAborts ==
    remaining < 0 => (pc = "returned" /\ err \notin {"", "nil"})

\* C12, as stated: a STACK TRACE record whose serial is that of a trace
\* decoded before makes readAll return an error, and no step replaces the
\* trace stored under a serial.
C12_DuplicateTraceSerialFails ==
    [][/\ \A serial \in DOMAIN traceBySerial :
              /\ serial \in DOMAIN traceBySerial'
              /\ traceBySerial'[serial] = traceBySerial[serial]
       /\ \A serial \in DOMAIN traceBySerial :
              \A threadSerial \in ThreadSerials, ids \in FrameIdSeqs :
                  readTrace(serial, threadSerial, ids, 3 + MaxFrames) => Aborted]_vars

----------------------------------------------------------------------------
(* Properties of top10, under SpecTop *)

\* The entries in the order of a full sort by size, largest first
RECURSIVE InsertDesc(_, _)
InsertDesc(sorted, e) ==
    IF sorted = <<>> THEN <<e>>
    ELSE IF e.size > Head(sorted).size THEN <<e>> \o sorted
    ELSE <<Head(sorted)>> \o InsertDesc(Tail(sorted), e)

RECURSIVE SortDesc(_)
SortDesc(entries) ==
    IF entries = <<>> THEN <<>>
    ELSE InsertDesc(SortDesc(Tail(entries)), Head(entries))

SizeCount(entries, v) == Cardinality({i \in DOMAIN entries : entries[i].size = v})

Serials(entries) == {entries[i].serial : i \in DOMAIN entries}

DistinctSizes(entries) ==
    \A i, j \in DOMAIN entries : entries[i].size = entries[j].size => i = j

\* C7: top10 returns min(10, len(m)) entries of m, whose sizes are, with
\* their multiplicities, the sizes of the first 10 of m sorted by size,
\* largest first; if no two sizes of m are equal, their serials are the
\* serials of those 10.
C7_Top10 ==
    pc = "top10 returned" =>
        LET len == IF Len(ranged) < 10 THEN Len(ranged) ELSE 10
            largest == SubSeq(SortDesc(ranged), 1, len)
        IN /\ Len(result) = len
           /\ \A i \in DOMAIN result : result[i] \in Range(ranged)
           /\ \A i \in DOMAIN ranged :
                  SizeCount(result, ranged[i].size) = SizeCount(largest, ranged[i].size)
           /\ DistinctSizes(ranged) => Serials(result) = Serials(largest)

\* Eleven entries of sizes of their own, the last of them among the ten
\* largest: the heap was full and its least entry was replaced.
C7_Witness ==
    /\ pc = "top10 returned"
    /\ Len(ranged) = 11
    /\ DistinctSizes(ranged)
    /\ 11 \in Serials(result)
    /\ 1 \in Serials(result)

\* C13, as stated: the slice top10 returns is in descending order of size:
\* of two adjacent entries the earlier is at least as large as the later.
C13_Top10Descending ==
    pc = "top10 returned" =>
        \A i \in 1..(Len(result) - 1) : result[i].size >= result[i + 1].size

====
